---- MODULE Spec2Model ----
(***************************************************************************)
(* Room lifecycle and event routing of fonsole-networking: the room        *)
(* registry, Room, Connection and the socket.io handlers of                *)
(* src/networking.js (lines 1-571).                                        *)
(*                                                                         *)
(* A handler runs to completion before the next one starts (one event      *)
(* loop), so every handler is one action.  An exception that leaves a      *)
(* handler (a TypeError on a released socket, 'Invalid room name',         *)
(* 'Bad arguments') is uncaught: the state keeps what the handler did up   *)
(* to the throw, fault is set and the process takes no further step.       *)
(***************************************************************************)
EXTENDS Integers, Sequences, FiniteSets, TLC

\* ------------------------------------------------------------------ bounds
\* Number of transport connections the server accepts in one run of Spec;
\* SpecThree accepts one more.
NConn == 2
\* A join is only taken while the room's clientConnections array is shorter.
MaxClients == 3

Conns == 1..(NConn + 1)
\* Room objects of the heap; an object is reused once nothing refers to it.
RoomRefs == 1..(NConn + 1)
\* Codes the free-code generator may draw.
Codes == {"100"}
\* Passwords a client may send ("<null>" stands for null / not supplied).
null == "<null>"
Passwords == {null, "x", "y"}
OpenPasswords == {null, "x"}
Games == {"trivia"}
EventNames == {"answer"}
EventArgs == {42}
\* A room name that is not a string (typeof roomName !== 'string').
NotAString == "<non-string>"
\* A code under which no room is ever opened.
UnknownCode == "999"
RoomNameInputs == Codes \cup {UnknownCode, "", NotAString}

\* ------------------------------------------------------------- JS values
\* undefined in a clientConnections slot, no Room object, no room reference
undefined == 0
NoRoom == 0
\* the key "undefined" of an object literal (acc[undefined] = ...)
undefinedKey == -2

JSNull == [t |-> "null"]
JSNum(n) == [t |-> "number", n |-> n]
JSArr(ids) == [t |-> "array", ids |-> ids]
JSObj == [t |-> "object"]
NoArgs == [none |-> TRUE]

\* arr[i] = v on a JS array (0-based); writing past the end grows the array
ArraySet(arr, i, v) ==
  IF i < Len(arr)
    THEN [arr EXCEPT ![i + 1] = v]
    ELSE arr \o [k \in 1..(i - Len(arr)) |-> undefined] \o <<v>>

\* arr[i] on a JS array (0-based); undefined outside the array
ArrayGet(arr, i) ==
  IF i >= 0 /\ i < Len(arr) THEN arr[i + 1] ELSE undefined

\* arr.filter(x => x != null)
FilterNotNull(arr) == SelectSeq(arr, LAMBDA x : x # undefined)

\* this.session = socket.id
session(c) == 100 + c

VARIABLES
  rooms,          \* the registry: code -> Room object (NoRoom: not a key)
  heap,           \* Room objects: name, password, hostConnection, clientConnections, game
  connectionId,   \* Connection.connectionId (-1: not in a room)
  room,           \* Connection.room
  socket,         \* Connection.socket: "unborn" (not yet accepted), "open", "undefined"
  fault,          \* an exception left a handler
  gen,            \* generateEmptyRoomName's frame: pc, num, i and the name drawn
  api             \* one NetworkingAPI instance of a client (src/unnamed/part_001)

vars == <<rooms, heap, connectionId, room, socket, fault, gen, api>>

\* A Room object nothing refers to
EmptyRoom ==
  [name |-> "", password |-> null, hostConnection |-> undefined,
   clientConnections |-> <<>>, game |-> "", issued |-> <<>>]

NoSent == [c \in Conns |-> <<>>]

\* The server state a handler works on; sent collects, per connection, the
\* messages the handler puts out with socket.emit
State ==
  [rooms |-> rooms, heap |-> heap, connectionId |-> connectionId,
   room |-> room, socket |-> socket, sent |-> NoSent, fault |-> FALSE]

\* isInRoom that tests for the host's id
isInRoomHostOnly(s, c) == s.connectionId[c] = 0

\* isInRoom that never sees the connection in a room
isInRoomNever(s, c) == FALSE

\* Connection.isInRoom
isInRoom(s, c) == s.connectionId[c] # -1

\* platform taking every connection that is in a room for the desktop
platformAnyMember(s, c) ==
  IF s.connectionId[c] = -1 THEN "null" ELSE "desktop"

\* Connection.platform
platform(s, c) ==
  IF s.connectionId[c] = -1 THEN "null"
  ELSE IF s.connectionId[c] = 0 THEN "desktop" ELSE "controller"

\* ------------------------------------------------------------------- Room
\* client.socket.emit(event, ...args): a TypeError when the socket was released
SocketEmit(s, client, event, args) ==
  IF s.fault THEN s
  ELSE IF s.socket[client] # "open" THEN [s EXCEPT !.fault = TRUE]
  ELSE [s EXCEPT !.sent[client] = Append(@, [event |-> event, args |-> args])]

\* Room.getClientById
getClientById(rm, id) ==
  IF id = 0 THEN rm.hostConnection ELSE ArrayGet(rm.clientConnections, id + 1)

\* const exceptType = typeof except;  (no variable named except exists)
exceptType == "undefined"

\* checkConnection reading client.socket.connectionId (which no socket has) in
\* the array branch too, so that includes() never finds the client's id
checkConnectionSocketId(s, client, event, exceptId, args) ==
  IF s.fault THEN s
  ELSE IF exceptId.t = "array" \/ exceptId.t = "null"
          \/ (exceptId.t = "number" /\ exceptId.n = -1)
    THEN SocketEmit(s, client, event, args)
  ELSE s

\* checkConnection of Room.emit
checkConnection(s, client, event, exceptId, args) ==
  IF s.fault THEN s
  ELSE IF exceptId.t = "array"
    THEN IF \A i \in 1..Len(exceptId.ids) : exceptId.ids[i] # s.connectionId[client]
           THEN SocketEmit(s, client, event, args)
           ELSE s
  ELSE IF exceptId.t = "null" \/ (exceptId.t = "number" /\ exceptId.n = -1)
    THEN SocketEmit(s, client, event, args)
  ELSE IF exceptType = "number"
    \* exceptId !== client.socket.connectionId: a socket has no connectionId, so
    \* the comparison is true whenever the socket is there to be read
    THEN IF s.socket[client] # "open"
           THEN [s EXCEPT !.fault = TRUE]
           ELSE SocketEmit(s, client, event, args)
  ELSE s

RECURSIVE forEachCheckConnection(_, _, _, _, _)
forEachCheckConnection(s, clients, event, exceptId, args) ==
  IF clients = <<>> THEN s
  ELSE forEachCheckConnection(checkConnection(s, Head(clients), event, exceptId, args),
                              Tail(clients), event, exceptId, args)

RECURSIVE forEachId(_, _, _, _, _)
forEachId(s, r, ids, event, args) ==
  IF ids = <<>> \/ s.fault THEN s
  ELSE LET client == getClientById(s.heap[r], Head(ids))
           s1 == IF client # undefined THEN SocketEmit(s, client, event, args) ELSE s
       IN forEachId(s1, r, Tail(ids), event, args)

\* Room.emit(event, connectionId = -1, exceptId, ...args); toId is its connectionId
emit(s, r, event, toId, exceptId, args) ==
  IF s.fault THEN s
  ELSE IF toId.t = "number" /\ toId.n # -1
    THEN LET client == getClientById(s.heap[r], toId.n)
         IN IF client # undefined THEN SocketEmit(s, client, event, args) ELSE s
  ELSE IF toId.t = "array"
    THEN forEachId(s, r, toId.ids, event, args)
  ELSE IF toId.t = "null" \/ (toId.t = "number" /\ toId.n = -1)
    THEN LET s1 == forEachCheckConnection(s, FilterNotNull(s.heap[r].clientConnections),
                                          event, exceptId, args)
         IN checkConnection(s1, s.heap[r].hostConnection, event, exceptId, args)
  ELSE [s EXCEPT !.fault = TRUE]

\* push taken to return the index of the new element instead of the new length
pushReturnsIndex(arr, client) == [arr |-> Append(arr, client), id |-> Len(arr)]

\* const id = this.clientConnections.push(client)
push(arr, client) == [arr |-> Append(arr, client), id |-> Len(arr) + 1]

\* the password test with === in place of !==
wrongPasswordInverted(rm, password) == rm.password # null /\ rm.password = password

\* the password test without the exemption of a room that has no password
wrongPasswordStrict(rm, password) == rm.password # password

\* the password test of Room.join
wrongPassword(rm, password) == rm.password # null /\ rm.password # password

\* Room.join: the state, the id returned and the RoomError thrown ("" for none)
join(s, r, client, password) ==
  IF wrongPassword(s.heap[r], password)
    THEN [s |-> s, id |-> -1, err |-> "error_room_wrong_password"]
    ELSE LET p == push(s.heap[r].clientConnections, client)
             s1 == [s EXCEPT !.heap[r].clientConnections = p.arr,
                             !.heap[r].issued = Append(@, p.id)]
             s2 == emit(s1, r, "connections:join", JSNum(-1), JSNum(p.id),
                        [connectionId |-> p.id, session |-> session(client)])
         IN [s |-> s2, id |-> p.id, err |-> ""]

\* Room.getClientConnections: acc[connection.id] = connection.session, and a
\* Connection has no field id, so every entry is written under the key "undefined"
getClientConnections(rm) ==
  LET live == FilterNotNull(rm.clientConnections)
  IN IF live = <<>> THEN {} ELSE {<<undefinedKey, session(live[Len(live)])>>}

\* Room.removeConnection
removeConnection(s, r, id) ==
  LET s1 == [s EXCEPT !.heap[r].clientConnections = ArraySet(@, id, undefined)]
  IN IF id # 0
       THEN emit(s1, r, "connections:disconnect", JSNum(-1), JSNull, [connectionId |-> id])
       ELSE s1

\* Room.setGame
setGame(s, r, game) ==
  emit([s EXCEPT !.heap[r].game = game], r, "game:set", JSNum(-1), JSNull, [game |-> game])

RECURSIVE leaveRoom(_, _, _), dispose(_, _), forEachLeaveRoom(_, _)

\* Connection.leaveRoom(notify)
leaveRoom(s, c, notify) ==
  IF s.fault \/ ~isInRoom(s, c) THEN s
  ELSE LET s1 == removeConnection(s, s.room[c], s.connectionId[c])
           s2 == IF s1.fault THEN s1
                 ELSE IF s1.connectionId[c] = 0 THEN dispose(s1, s1.room[c]) ELSE s1
           s3 == IF s2.fault THEN s2
                 ELSE [s2 EXCEPT !.connectionId[c] = -1, !.room[c] = NoRoom]
       IN IF notify THEN SocketEmit(s3, c, "room:status", NoArgs) ELSE s3

\* clients.forEach(client => client.leaveRoom(true))
forEachLeaveRoom(s, clients) ==
  IF clients = <<>> THEN s
  ELSE forEachLeaveRoom(leaveRoom(s, Head(clients), TRUE), Tail(clients))

\* dispose without delete rooms[this.name]
disposeKeepsName(s, r) ==
  forEachLeaveRoom(s, FilterNotNull(s.heap[r].clientConnections))

\* Room.dispose
dispose(s, r) ==
  LET s1 == forEachLeaveRoom(s, FilterNotNull(s.heap[r].clientConnections))
  IN IF s1.fault THEN s1 ELSE [s1 EXCEPT !.rooms[s.heap[r].name] = NoRoom]

\* ------------------------------------------------------------- Connection
\* Room objects something still refers to
Referenced(s, r) ==
  \/ \E code \in DOMAIN s.rooms : s.rooms[code] = r
  \/ \E c \in Conns : s.room[c] = r

\* new Room(hostConnection, roomName, password) is put in the first free object
newRoomRef(s) == CHOOSE r \in RoomRefs : ~Referenced(s, r) /\ \A q \in 1..(r - 1) : Referenced(s, q)

\* roomName in rooms
inRooms(s, roomName) == roomName \in DOMAIN s.rooms /\ s.rooms[roomName] # NoRoom

\* !roomName || typeof roomName !== 'string'
invalidRoomName(roomName) == roomName = "" \/ roomName = NotAString

\* openRoom with a Room constructor that registers without looking in rooms
openRoomOverwrite(s, c, roomName, password) ==
  IF isInRoom(s, c) THEN s
  ELSE IF invalidRoomName(roomName) THEN [s EXCEPT !.fault = TRUE]
  ELSE LET r == newRoomRef(s)
           s1 == [s EXCEPT !.rooms[roomName] = r,
                           !.heap[r] = [name |-> roomName, password |-> password,
                                        hostConnection |-> c, clientConnections |-> <<>>,
                                        game |-> "", issued |-> <<>>],
                           !.room[c] = r,
                           !.connectionId[c] = 0]
       IN SocketEmit(s1, c, "room:status", [connectionId |-> 0, roomName |-> roomName])

\* openRoom with the Room constructor throwing when the name is NOT in rooms
openRoomInverted(s, c, roomName, password) ==
  IF isInRoom(s, c) THEN s
  ELSE IF invalidRoomName(roomName) THEN [s EXCEPT !.fault = TRUE]
  ELSE IF ~inRooms(s, roomName)
    THEN SocketEmit(s, c, "room:status", [error |-> "error_room_exists"])
  ELSE s

\* Connection.openRoom with the Room constructor
openRoom(s, c, roomName, password) ==
  IF isInRoom(s, c) THEN s
  ELSE IF invalidRoomName(roomName) THEN [s EXCEPT !.fault = TRUE]
  ELSE IF inRooms(s, roomName)
    THEN SocketEmit(s, c, "room:status", [error |-> "error_room_exists"])
  ELSE LET r == newRoomRef(s)
           s1 == [s EXCEPT !.rooms[roomName] = r,
                           !.heap[r] = [name |-> roomName, password |-> password,
                                        hostConnection |-> c, clientConnections |-> <<>>,
                                        game |-> "", issued |-> <<>>],
                           !.room[c] = r,
                           !.connectionId[c] = 0]
       IN SocketEmit(s1, c, "room:status", [connectionId |-> 0, roomName |-> roomName])

\* joinRoom returning without a reply when the name is not in rooms
joinRoomSilent(s, c, roomName, password) ==
  IF isInRoom(s, c) THEN s
  ELSE IF invalidRoomName(roomName) THEN [s EXCEPT !.fault = TRUE]
  ELSE IF ~inRooms(s, roomName) THEN s
  ELSE LET r == s.rooms[roomName]
           j == join(s, r, c, password)
       IN IF j.err # "" THEN SocketEmit(j.s, c, "room:status", [error |-> j.err])
          ELSE IF j.s.fault THEN j.s
          ELSE LET s1 == [j.s EXCEPT !.connectionId[c] = j.id, !.room[c] = r]
               IN SocketEmit(s1, c, "room:status",
                             [connections |-> getClientConnections(s1.heap[r]),
                              connectionId |-> j.id, roomName |-> roomName])

\* Connection.joinRoom
joinRoom(s, c, roomName, password) ==
  IF isInRoom(s, c) THEN s
  ELSE IF invalidRoomName(roomName) THEN [s EXCEPT !.fault = TRUE]
  ELSE IF ~inRooms(s, roomName)
    THEN SocketEmit(s, c, "room:status", [error |-> "error_room_not_exists"])
  ELSE LET r == s.rooms[roomName]
           j == join(s, r, c, password)
       IN IF j.err # "" THEN SocketEmit(j.s, c, "room:status", [error |-> j.err])
          ELSE IF j.s.fault THEN j.s
          ELSE LET s1 == [j.s EXCEPT !.connectionId[c] = j.id, !.room[c] = r]
               IN SocketEmit(s1, c, "room:status",
                             [connections |-> getClientConnections(s1.heap[r]),
                              connectionId |-> j.id, roomName |-> roomName])

\* Connection.dispose releasing the socket without leaving the room
connectionDisposeStays(s, c) == [s EXCEPT !.socket[c] = "undefined"]

\* Connection.dispose
connectionDispose(s, c) ==
  LET s1 == leaveRoom(s, c, FALSE)
  IN IF s1.fault THEN s1 ELSE [s1 EXCEPT !.socket[c] = "undefined"]

\* the 'game:event' handler's two calls of Room.emit
gameEvent(s, c, message) ==
  IF ~isInRoom(s, c) THEN s
  ELSE IF message.connectionId.t # "null"
          /\ ~(message.connectionId.t = "number" /\ message.connectionId.n = -1)
    \* emit('game:event', message.connectionId, {sender, event, args}): the payload
    \* lands in emit's exceptId parameter and ...args is empty
    THEN emit(s, s.room[c], "game:event", message.connectionId, JSObj, NoArgs)
    ELSE emit(s, s.room[c], "game:event", JSNum(-1), JSArr(<<s.connectionId[c]>>),
              [sender |-> s.connectionId[c], event |-> message.event, args |-> message.args])

\* ---------------------------------------------------------------- handlers
\* Each handler as a function of the server state it starts in.  The fields
\* sent and fault of its result are what it emitted and whether it threw.

\* socket.on('disconnect')
handleDisconnect(s, c) == connectionDispose(s, c)

\* socket.on('room:open'), roomName being what generateEmptyRoomName returned
handleRoomOpen(s, c, roomName, password) ==
  IF isInRoom(s, c) THEN s
  ELSE IF roomName # "" THEN openRoom(s, c, roomName, password)
  ELSE s

\* socket.on('room:join')
handleRoomJoin(s, c, roomName, password) ==
  IF isInRoom(s, c) THEN s
  ELSE IF roomName # "" THEN joinRoom(s, c, roomName, password)
  ELSE s

\* socket.on('room:leave')
handleRoomLeave(s, c) ==
  IF ~isInRoom(s, c) THEN s ELSE leaveRoom(s, c, TRUE)

\* socket.on('game:set')
handleGameSet(s, c, game) ==
  IF ~isInRoom(s, c) THEN s
  ELSE IF platform(s, c) = "desktop" THEN setGame(s, s.room[c], game)
  ELSE s

\* socket.on('game:event')
handleGameEvent(s, c, message) == gameEvent(s, c, message)

\* ------------------------------------------------------------------ actions
\* The handler's result becomes the next state; a Room object nothing refers
\* to any more is collected.
Commit(s) ==
  /\ rooms' = s.rooms
  /\ heap' = [r \in RoomRefs |-> IF Referenced(s, r) THEN s.heap[r] ELSE EmptyRoom]
  /\ connectionId' = s.connectionId
  /\ room' = s.room
  /\ socket' = s.socket
  /\ fault' = s.fault
  /\ gen' = gen
  /\ api' = api

\* No client instance is looked at
NoApi == [none |-> TRUE]

\* generateEmptyRoomName is not running
NoCall == [pc |-> "idle", num |-> 0, i |-> 0, name |-> ""]

\* A handler of connection c can run
Live(c) == ~fault /\ socket[c] = "open"

Init ==
  /\ rooms = [code \in Codes |-> NoRoom]
  /\ heap = [r \in RoomRefs |-> EmptyRoom]
  /\ connectionId = [c \in Conns |-> -1]
  /\ room = [c \in Conns |-> NoRoom]
  /\ socket = [c \in Conns |-> "unborn"]
  /\ fault = FALSE
  /\ gen = NoCall
  /\ api = NoApi

\* Networking.addConnection: new Connection(clientSocket, this)
addConnection(c) ==
  /\ ~fault
  /\ socket[c] = "unborn"
  /\ \A q \in 1..(c - 1) : socket[q] # "unborn"
  /\ Commit([State EXCEPT !.socket[c] = "open"])

onDisconnect(c) ==
  /\ Live(c)
  /\ Commit(handleDisconnect(State, c))

\* generateEmptyRoomName hands back some code that is not registered
onRoomOpen(c, roomName, password) ==
  /\ Live(c)
  /\ ~inRooms(State, roomName)
  /\ Commit(handleRoomOpen(State, c, roomName, password))

\* A join that would grow clientConnections is taken while the array is short
JoinBounded(roomName) ==
  inRooms(State, roomName) => Len(heap[rooms[roomName]].clientConnections) < MaxClients

onRoomJoin(c, roomName, password) ==
  /\ Live(c)
  /\ JoinBounded(roomName)
  /\ Commit(handleRoomJoin(State, c, roomName, password))

onRoomLeave(c) ==
  /\ Live(c)
  /\ Commit(handleRoomLeave(State, c))

onGameSet(c, game) ==
  /\ Live(c)
  /\ Commit(handleGameSet(State, c, game))

onGameEvent(c, message) ==
  /\ Live(c)
  /\ Commit(handleGameEvent(State, c, message))

\* message.connectionId as a client may send it: absent, -1, or an id
TargetInputs == {JSNull, JSNum(-1)} \cup {JSNum(k) : k \in 0..MaxClients}

Messages ==
  [connectionId : TargetInputs, event : EventNames, args : EventArgs]

\* The handlers of the accepted connections
Handlers ==
  \/ \E c \in Conns : onDisconnect(c)
  \/ \E c \in Conns, roomName \in Codes, password \in OpenPasswords :
       onRoomOpen(c, roomName, password)
  \/ \E c \in Conns, roomName \in RoomNameInputs, password \in Passwords :
       onRoomJoin(c, roomName, password)
  \/ \E c \in Conns : onRoomLeave(c)
  \/ \E c \in Conns, game \in Games : onGameSet(c, game)
  \/ \E c \in Conns, message \in Messages : onGameEvent(c, message)

\* NConn connections
Next ==
  \/ \E c \in 1..NConn : addConnection(c)
  \/ Handlers

Spec == Init /\ [][Next]_vars

\* NConn + 1 connections
NextThree ==
  \/ \E c \in Conns : addConnection(c)
  \/ Handlers

SpecThree == Init /\ [][NextThree]_vars

\* ------------------------------------------------ two codes in the registry
\* A second code that generateEmptyRoomName can hand back
SecondCode == "200"
TwoCodes == Codes \cup {SecondCode}

InitTwoRooms ==
  /\ rooms = [code \in TwoCodes |-> NoRoom]
  /\ heap = [r \in RoomRefs |-> EmptyRoom]
  /\ connectionId = [c \in Conns |-> -1]
  /\ room = [c \in Conns |-> NoRoom]
  /\ socket = [c \in Conns |-> "unborn"]
  /\ fault = FALSE
  /\ gen = NoCall
  /\ api = NoApi

\* NConn connections that open and join rooms under two codes
NextTwoRooms ==
  \/ \E c \in 1..NConn : addConnection(c)
  \/ \E c \in Conns : onDisconnect(c)
  \/ \E c \in Conns, roomName \in TwoCodes, password \in OpenPasswords :
       onRoomOpen(c, roomName, password)
  \/ \E c \in Conns, roomName \in TwoCodes, password \in Passwords :
       onRoomJoin(c, roomName, password)
  \/ \E c \in Conns : onRoomLeave(c)
  \/ \E c \in Conns, game \in Games : onGameSet(c, game)
  \/ \E c \in Conns, message \in Messages : onGameEvent(c, message)

SpecTwoRooms == InitTwoRooms /\ [][NextTwoRooms]_vars

\* ------------------------------------------- Networking: free room codes
\* Start generating room code from 3 digits
StartLength == 3
\* Tries to generate room name 100 times
Tries == 100

\* const min = 10 ** (length - 1)
min(length) == 10 ^ (length - 1)
\* const multiplier = min * 9
multiplier(length) == min(length) * 9

\* Networking.generateRandomRoomName: the names one call can return, the
\* decimal string of floor(random * multiplier) + min for random in [0, 1)
generateRandomRoomName(length) ==
  {ToString(k + min(length)) : k \in 0..(multiplier(length) - 1)}

\* The codes of the first length the generator tries, and of the next
FirstCodes == generateRandomRoomName(StartLength)
SecondCodes == generateRandomRoomName(StartLength + 1)

\* generateRandomRoomName(length), the sets of the first two lengths being
\* evaluated once
randomRoomNames(length) ==
  IF length = StartLength THEN FirstCodes
  ELSE IF length = StartLength + 1 THEN SecondCodes
  ELSE generateRandomRoomName(length)

\* the loop heads after a name that is taken, with num never increased
nextTrySameLength(g) ==
  IF g.i + 1 < Tries THEN [g EXCEPT !.i = g.i + 1] ELSE [g EXCEPT !.i = 0]

\* i += 1; i < 100, and num += 1 with i = 0 when the inner loop is done
nextTry(g) ==
  IF g.i + 1 < Tries THEN [g EXCEPT !.i = g.i + 1]
  ELSE [g EXCEPT !.num = g.num + 1, !.i = 0]

\* the loop body returning the name whether or not it is in rooms
tryNameUnchecked(s, g, name) == [g EXCEPT !.pc = "return", !.name = name]

\* the body of the inner loop: if (!(name in rooms)) return name
tryName(s, g, name) ==
  IF ~inRooms(s, name) THEN [g EXCEPT !.pc = "return", !.name = name]
  ELSE nextTry(g)

\* Networking.generateEmptyRoomName, one pass of the inner loop per step
generateEmptyRoomName ==
  /\ gen.pc = "loop"
  /\ \E name \in randomRoomNames(gen.num) : gen' = tryName(State, gen, name)
  /\ UNCHANGED <<rooms, heap, connectionId, room, socket, fault, api>>

\* Registries the generator is called on: no room, every code of the first
\* length taken, and every one but the last.  Only the keys of rooms are
\* read, so the Room objects behind them are not built.
Registries ==
  {[code \in FirstCodes |-> NoRoom],
   [code \in FirstCodes |-> 1],
   [code \in FirstCodes |-> IF code = "999" THEN NoRoom ELSE 1]}

\* The 'room:open' handler has just called generateEmptyRoomName
InitGen ==
  /\ rooms \in Registries
  /\ heap = [r \in RoomRefs |-> EmptyRoom]
  /\ connectionId = [c \in Conns |-> -1]
  /\ room = [c \in Conns |-> NoRoom]
  /\ socket = [c \in Conns |-> "unborn"]
  /\ fault = FALSE
  /\ gen = [pc |-> "loop", num |-> StartLength, i |-> 0, name |-> ""]
  /\ api = NoApi

NextGen == generateEmptyRoomName

\* The loop waits for nothing, so it keeps taking steps until it returns
SpecGen == InitGen /\ [][NextGen]_vars /\ WF_vars(NextGen)

\* ------------------------------------------ client: class NetworkingAPI
\* The client of src/unnamed/part_001, the variant that matches the server
\* modelled above.  One instance is followed through the calls the
\* application makes on it and the messages its sockets deliver: through its
\* requests and their answers in SpecClient, through its subscriptions and
\* the events dispatched to them in SpecEvents.  The application's callbacks
\* record that they were called and call nothing.

\* Callbacks the application registers in one run.
MaxCallbacks == 2
\* Requests (openRoom, joinRoom) the application makes in one run.
MaxRequests == 2
\* The counters of occurrences and calls stop counting here.
MaxCount == 2

Callbacks == 1..MaxCallbacks
\* a property that was never assigned (roomName, game, message.event)
undefinedName == "<undefined>"
\* Events the application subscribes to with on / once
LocalEvents == {"room:status"}
\* Keys of gameEvents: the game's event names and the key "undefined"
GameKeys == EventNames \cup {undefinedName}
\* Room names the application passes to joinRoom, character by character
ClientRoomNames == {<<"0", "1", "0", "0">>, <<"1", "0", "0">>, <<"x", "1", "0", "0">>}
\* servers.js: the keys of SERVERS
SERVERS == {"0", "1"}

\* A listener slot: a handler (kind "on"), the proxy that once / gameOnce
\* wrap around a handler (kind "once"), or undefined (kind "removed").  The
\* handler is application callback n (t = "app", or t = "reemit" for one that
\* emits its event again) or the status handler of promise n that openRoom /
\* joinRoom registered (t = "openRoom", "joinRoom").
NoSlot == [kind |-> "removed", t |-> "none", n |-> 0]

\* What is known about an application callback: how and for which event it was
\* registered, how often that event was dispatched since (before a game:set
\* dropped the registration), how often the callback was called, whether a
\* game:set dropped it, and whether it was called after that.
NoHist ==
  [reg |-> "none", event |-> "", seen |-> 0, calls |-> 0, cleared |-> FALSE, late |-> FALSE]

\* new Promise(...): pending; answered tells whether a room:status was
\* received since the request
NewPromise(of) ==
  [of |-> of, state |-> "pending", value |-> NoArgs, answered |-> FALSE]

\* NetworkingAPI.constructor
newApi ==
  [clientConnections |-> {},
   events |-> [e \in LocalEvents |-> <<>>],
   gameEvents |-> [e \in GameKeys |-> <<>>],
   connectionId |-> -1,
   roomName |-> undefinedName,
   game |-> undefinedName,
   socket |-> "undefined",
   leaked |-> FALSE,
   promises |-> <<>>,
   hist |-> [n \in Callbacks |-> NoHist],
   wire |-> <<>>, invoked |-> <<>>, threw |-> FALSE]

Inc(k) == IF k < MaxCount THEN k + 1 ELSE k

\* obj[key] = value on an object kept as a set of <<key, value>> pairs
SetKey(obj, key, value) == {q \in obj : q[1] # key} \cup {<<key, value>>}
\* Object.assign(obj, src)
ObjectAssign(obj, src) == {q \in obj : \A w \in src : w[1] # q[1]} \cup src

\* status.connectionId != null && status.roomName != null
carriesRoom(status) == "connectionId" \in DOMAIN status /\ "roomName" \in DOMAIN status

\* resolve / reject of a promise: only a pending promise changes
settle(a, p, state, value) ==
  IF a.promises[p].state = "pending"
    THEN [a EXCEPT !.promises[p].state = state, !.promises[p].value = value]
    ELSE a

\* the status handler of openRoom's promise leaving the promise pending when
\* the status carries no room
openRoomStatusIgnoresError(a, p, status) ==
  IF carriesRoom(status)
    THEN settle(a, p, "resolved",
                [connectionId |-> status.connectionId, roomName |-> status.roomName])
    ELSE a

\* the status handler of openRoom's promise
openRoomStatus(a, p, status) ==
  IF carriesRoom(status)
    THEN settle(a, p, "resolved",
                [connectionId |-> status.connectionId, roomName |-> status.roomName])
    ELSE settle(a, p, "rejected",
                [error |-> IF "error" \in DOMAIN status THEN status.error ELSE ""])

\* the status handler of joinRoom's promise
joinRoomStatus(a, p, status) ==
  IF carriesRoom(status)
    THEN settle(a, p, "resolved", status)
    ELSE settle(a, p, "rejected",
                [error |-> IF "error" \in DOMAIN status THEN status.error ELSE ""])

RECURSIVE clientEmit(_, _, _)

\* handler.call(this, ...content).  An application callback records the call;
\* the callback with t = "reemit" also calls emit with its own event and the
\* same content, the first time it is called
call(a, slot, content) ==
  IF slot.t = "openRoom" THEN openRoomStatus(a, slot.n, content)
  ELSE IF slot.t = "joinRoom" THEN joinRoomStatus(a, slot.n, content)
  ELSE LET a1 == [a EXCEPT !.invoked = Append(@, [cb |-> slot.n, args |-> content]),
                           !.hist[slot.n].calls = Inc(@),
                           !.hist[slot.n].late = @ \/ a.hist[slot.n].cleared]
       IN IF slot.t = "reemit" /\ a.hist[slot.n].calls = 0
            THEN clientEmit(a1, a.hist[slot.n].event, content)
            ELSE a1

\* the proxy of once / gameOnce leaving its slot occupied
listenerKeepsSlot(a, family, event, i, content) ==
  LET slot == IF family = "game" THEN a.gameEvents[event][i] ELSE a.events[event][i]
  IN call(a, slot, content)

\* events[event][i].call(this, ...content): the handler itself, or the proxy
\* of once / gameOnce, which calls the handler and then clears its slot
listener(a, family, event, i, content) ==
  LET slot == IF family = "game" THEN a.gameEvents[event][i] ELSE a.events[event][i]
      a1 == call(a, slot, content)
  IN IF slot.kind # "once" THEN a1
     ELSE IF family = "game" THEN [a1 EXCEPT !.gameEvents[event][i] = NoSlot]
     ELSE [a1 EXCEPT !.events[event][i] = NoSlot]

RECURSIVE forListeners(_, _, _, _, _)

\* for (let i = 0; i < listeners.length; i += 1) if (listeners[i]) ...
forListeners(a, family, event, i, content) ==
  LET listeners == IF family = "game" THEN a.gameEvents[event] ELSE a.events[event]
  IN IF i > Len(listeners) THEN a
     ELSE forListeners(IF listeners[i].kind # "removed"
                         THEN listener(a, family, event, i, content) ELSE a,
                       family, event, i + 1, content)

\* the event was dispatched once more to the callbacks registered for it
noteOccurrence(a, regs, event) ==
  [a EXCEPT !.hist = [n \in Callbacks |->
     IF a.hist[n].reg \in regs /\ a.hist[n].event = event /\ ~a.hist[n].cleared
       THEN [a.hist[n] EXCEPT !.seen = Inc(@)] ELSE a.hist[n]]]

\* NetworkingAPI.emit
clientEmit(a, event, content) ==
  IF event \notin DOMAIN a.events THEN a
  ELSE forListeners(noteOccurrence(a, {"on", "once"}, event), "local", event, 1, content)

\* NetworkingAPI.gameEmit
gameEmit(a, event, senderId, args) ==
  IF event \notin DOMAIN a.gameEvents THEN a
  ELSE forListeners(noteOccurrence(a, {"gameOn", "gameOnce"}, event), "game", event, 1,
                    [sender |-> senderId, args |-> args])

\* NetworkingAPI.on
on(a, event, slot) == [a EXCEPT !.events[event] = Append(@, slot)]

\* NetworkingAPI.once
once(a, event, slot) == on(a, event, [slot EXCEPT !.kind = "once"])

\* NetworkingAPI.gameOn
gameOn(a, event, slot) == [a EXCEPT !.gameEvents[event] = Append(@, slot)]

\* NetworkingAPI.gameOnce
gameOnce(a, event, slot) == gameOn(a, event, [slot EXCEPT !.kind = "once"])

\* NetworkingAPI.closeSocket
closeSocket(a) == [a EXCEPT !.socket = "undefined"]

\* this.socket = io(socketUrl): a socket that was open is replaced, not closed
openSocket(a) ==
  [a EXCEPT !.leaked = @ \/ a.socket = "open", !.socket = "open"]

\* this.socket.emit(event, ...): a TypeError when this.socket is undefined
socketEmit(a, event, args) ==
  IF a.socket # "open" THEN [a EXCEPT !.threw = TRUE]
  ELSE [a EXCEPT !.wire = Append(@, [event |-> event, args |-> args])]

\* a room:status was received since the request of every promise there is
noteStatus(a, status) ==
  [a EXCEPT !.promises = [p \in 1..Len(a.promises) |->
     [a.promises[p] EXCEPT !.answered = TRUE]]]

\* socket.on('room:status') with the test for a joined status left out
recvRoomStatusNeverJoined(a, status) ==
  clientEmit(closeSocket([noteStatus(a, status) EXCEPT !.roomName = "",
                                                       !.connectionId = -1,
                                                       !.clientConnections = {}]),
             "room:status", status)

\* socket.on('room:status')
recvRoomStatus(a, status) ==
  LET a0 == noteStatus(a, status)
      a1 == IF carriesRoom(status)
              THEN [a0 EXCEPT !.roomName = status.roomName,
                              !.connectionId = status.connectionId,
                              !.clientConnections =
                                 IF "connections" \in DOMAIN status
                                   THEN ObjectAssign(@, status.connections) ELSE @]
              ELSE closeSocket([a0 EXCEPT !.roomName = "",
                                          !.connectionId = -1,
                                          !.clientConnections = {}])
  IN clientEmit(a1, "room:status", status)

\* socket.on('connections:join')
recvConnectionsJoin(a, id, sess) ==
  clientEmit([a EXCEPT !.clientConnections = SetKey(@, id, sess)],
             "connections:join", [connectionId |-> id, session |-> sess])

\* socket.on('connections:disconnect')
recvConnectionsDisconnect(a, id) ==
  clientEmit([a EXCEPT !.clientConnections = SetKey(@, id, undefined)],
             "connections:disconnect", [connectionId |-> id])

\* socket.on('game:set') keeping the subscriptions of the previous game
recvGameSetKeepsEvents(a, game) ==
  LET a1 == [a EXCEPT !.game = game,
                      !.hist = [n \in Callbacks |->
                         IF a.hist[n].reg \in {"gameOn", "gameOnce"}
                           THEN [a.hist[n] EXCEPT !.cleared = TRUE] ELSE a.hist[n]]]
  IN clientEmit(a1, "game:set", [game |-> game])

\* socket.on('game:set')
recvGameSet(a, game) ==
  LET a1 == [a EXCEPT !.game = game,
                      !.gameEvents = [e \in GameKeys |-> <<>>],
                      !.hist = [n \in Callbacks |->
                         IF a.hist[n].reg \in {"gameOn", "gameOnce"}
                           THEN [a.hist[n] EXCEPT !.cleared = TRUE] ELSE a.hist[n]]]
  IN clientEmit(a1, "game:set", [game |-> game])

\* socket.on('game:event')
recvGameEvent(a, message) == gameEmit(a, message.event, message.sender, message.args)

\* NetworkingAPI.openRoom, from the point where FindClosestServer has answered
clientOpenRoom(a, password) ==
  LET a1 == socketEmit(openSocket(a), "room:open", [password |-> password])
      p == Len(a1.promises) + 1
      a2 == [a1 EXCEPT !.promises = Append(@, NewPromise("openRoom"))]
  IN once(a2, "room:status", [kind |-> "on", t |-> "openRoom", n |-> p])

RECURSIVE Concat(_)
\* the string made of the characters of chars
Concat(chars) == IF chars = <<>> THEN "" ELSE Head(chars) \o Concat(Tail(chars))

\* NetworkingAPI.joinRoom: the first character selects the server, the rest
\* is the room name sent
clientJoinRoom(a, roomName, password) ==
  IF roomName[1] \notin SERVERS THEN [a EXCEPT !.threw = TRUE]
  ELSE LET realRoomName == Concat(Tail(roomName))
           a1 == socketEmit(openSocket(a), "room:join",
                            [roomName |-> realRoomName, password |-> password])
           p == Len(a1.promises) + 1
           a2 == [a1 EXCEPT !.promises = Append(@, NewPromise("joinRoom"))]
       IN once(a2, "room:status", [kind |-> "on", t |-> "joinRoom", n |-> p])

\* NetworkingAPI.leaveRoom
clientLeaveRoom(a) ==
  IF a.connectionId # -1 THEN socketEmit(a, "room:leave", NoArgs) ELSE a

\* NetworkingAPI.setGame
clientSetGame(a, game) ==
  IF game = "" THEN [a EXCEPT !.threw = TRUE]
  ELSE IF a.connectionId = -1 THEN a
  ELSE IF a.connectionId = 0 THEN socketEmit(a, "game:set", [game |-> game])
  ELSE a

\* NetworkingAPI.gameSend: the message has the fields connectionId and args;
\* event is not put into it
gameSend(a, event, to, args) ==
  socketEmit(a, "game:event",
             [connectionId |-> JSNum(to), event |-> undefinedName, args |-> args])

\* What the instance's socket does with a message of the server: the handler
\* that openSocket registered for the message's event runs
deliver(a, message) ==
  CASE message.event = "room:status" -> recvRoomStatus(a, message.args)
    [] message.event = "connections:join" ->
         recvConnectionsJoin(a, message.args.connectionId, message.args.session)
    [] message.event = "connections:disconnect" ->
         recvConnectionsDisconnect(a, message.args.connectionId)
    [] message.event = "game:set" -> recvGameSet(a, message.args.game)
    [] message.event = "game:event" -> recvGameEvent(a, message.args)
    [] OTHER -> a

RECURSIVE deliverAll(_, _)
\* The messages are delivered in the order in which the server sent them
deliverAll(a, messages) ==
  IF messages = <<>> THEN a
  ELSE deliverAll(deliver(a, Head(messages)), Tail(messages))

\* --------------------------------------------------------- client actions
\* The result of a call or of a socket handler becomes the instance's state
CommitApi(a) ==
  /\ api' = [a EXCEPT !.wire = <<>>, !.invoked = <<>>, !.threw = FALSE]
  /\ UNCHANGED <<rooms, heap, connectionId, room, socket, fault, gen>>

\* The callback the application registers next
nextCallback(a) ==
  CHOOSE n \in Callbacks :
    a.hist[n].reg = "none" /\ \A q \in 1..(n - 1) : a.hist[q].reg # "none"

\* The application registers a callback with on, once, gameOn or gameOnce
subscribe(reg, event) ==
  /\ \E n \in Callbacks : api.hist[n].reg = "none"
  /\ LET n == nextCallback(api)
         slot == [kind |-> "on", t |-> "app", n |-> n]
         a == [api EXCEPT !.hist[n].reg = reg, !.hist[n].event = event]
     IN CommitApi(CASE reg = "on" -> on(a, event, slot)
                    [] reg = "once" -> once(a, event, slot)
                    [] reg = "gameOn" -> gameOn(a, event, slot)
                    [] reg = "gameOnce" -> gameOnce(a, event, slot))

\* The requests made so far: each one pushed a listener of room:status, and
\* so did each callback registered for it
requests(a) ==
  Len(a.events["room:status"])
    - Cardinality({n \in Callbacks : a.hist[n].reg \in {"on", "once"}
                                       /\ a.hist[n].event = "room:status"})

\* The application awaits the promise of a request before it makes the next
\* one, and keeps the promise of its latest request only
mayRequest(a) ==
  /\ requests(a) < MaxRequests
  /\ \A p \in 1..Len(a.promises) : a.promises[p].state # "pending"

callOpenRoom(password) ==
  /\ mayRequest(api)
  /\ CommitApi(clientOpenRoom([api EXCEPT !.promises = <<>>], password))

callJoinRoom(roomName, password) ==
  /\ mayRequest(api)
  /\ CommitApi(clientJoinRoom([api EXCEPT !.promises = <<>>], roomName, password))

\* The application opens the socket itself
callOpenSocket == CommitApi(openSocket(api))

callLeaveRoom == CommitApi(clientLeaveRoom(api))

callSetGame(game) == CommitApi(clientSetGame(api, game))

callGameSend(event, to, args) == CommitApi(gameSend(api, event, to, args))

\* Messages a server sends to a client: the room:status replies of openRoom,
\* joinRoom and leaveRoom, and what Room.emit broadcasts or relays
Statuses ==
  {[connectionId |-> 0, roomName |-> "100"],
   [connections |-> {<<undefinedKey, session(2)>>}, connectionId |-> 1, roomName |-> "100"],
   [error |-> "error_room_not_exists"],
   NoArgs}
GameMessages ==
  [sender : {0}, event : EventNames \cup {undefinedName}, args : EventArgs]

\* One of the instance's sockets delivers a message
receiveRoomStatus(status) ==
  /\ api.socket = "open" \/ api.leaked
  /\ CommitApi(recvRoomStatus(api, status))

receiveConnectionsJoin(id, sess) ==
  /\ api.socket = "open" \/ api.leaked
  /\ CommitApi(recvConnectionsJoin(api, id, sess))

receiveConnectionsDisconnect(id) ==
  /\ api.socket = "open" \/ api.leaked
  /\ CommitApi(recvConnectionsDisconnect(api, id))

receiveGameSet(game) ==
  /\ api.socket = "open" \/ api.leaked
  /\ CommitApi(recvGameSet(api, game))

receiveGameEvent(message) ==
  /\ api.socket = "open" \/ api.leaked
  /\ CommitApi(recvGameEvent(api, message))

InitClient ==
  /\ rooms = [code \in Codes |-> NoRoom]
  /\ heap = [r \in RoomRefs |-> EmptyRoom]
  /\ connectionId = [c \in Conns |-> -1]
  /\ room = [c \in Conns |-> NoRoom]
  /\ socket = [c \in Conns |-> "unborn"]
  /\ fault = FALSE
  /\ gen = NoCall
  /\ api = newApi

NextClient ==
  \/ \E password \in OpenPasswords : callOpenRoom(password)
  \/ \E roomName \in ClientRoomNames, password \in OpenPasswords :
       callJoinRoom(roomName, password)
  \/ callLeaveRoom
  \/ \E game \in Games : callSetGame(game)
  \/ \E event \in EventNames, args \in EventArgs : callGameSend(event, -1, args)
  \/ \E status \in Statuses : receiveRoomStatus(status)
  \/ receiveConnectionsJoin(2, session(3))
  \/ receiveConnectionsDisconnect(2)
  \/ \E game \in Games : receiveGameSet(game)
  \/ \E message \in GameMessages : receiveGameEvent(message)

\* The requests of an application and what the server answers
SpecClient == InitClient /\ [][NextClient]_vars

NextEvents ==
  \/ \E event \in LocalEvents : subscribe("on", event)
  \/ \E event \in LocalEvents : subscribe("once", event)
  \/ \E event \in EventNames : subscribe("gameOn", event)
  \/ \E event \in EventNames : subscribe("gameOnce", event)
  \/ callOpenSocket
  \/ \E status \in Statuses : receiveRoomStatus(status)
  \/ \E game \in Games : receiveGameSet(game)
  \/ \E message \in GameMessages : receiveGameEvent(message)

\* The subscriptions of an application and the events dispatched to them
SpecEvents == InitClient /\ [][NextEvents]_vars

\* ------------------------------------------------------------------- claims
Range(q) == {q[i] : i \in 1..Len(q)}
Count(q, m) == Cardinality({i \in 1..Len(q) : q[i] = m})

\* The connections whose identity is (r, some id): the members of room r
Members(r) == {g \in Conns : room[g] = r /\ connectionId[g] # -1}
Guests(r) == {g \in Members(r) : connectionId[g] # 0}

\* The registered rooms
Registered == {r \in RoomRefs : \E code \in DOMAIN rooms : rooms[code] = r}

EmptyStatus == [event |-> "room:status", args |-> NoArgs]
Broadcasts == {m \in Messages : m.connectionId \in {JSNull, JSNum(-1)}}
Targeted == {m \in Messages : m.connectionId \notin {JSNull, JSNum(-1)}}
Relayed(id, m) ==
  [event |-> "game:event", args |-> [sender |-> id, event |-> m.event, args |-> m.args]]
Recipients(s) == {g \in Conns : s.sent[g] # <<>>}

\* C1: when a room's host leaves or disconnects, every guest that is in the
\* room at that moment becomes UNJOINED and is sent an empty room-status, and
\* the room's code is no longer registered afterwards.
C1_HostDepartureEvictsGuests ==
  \A h \in Conns :
    (Live(h) /\ connectionId[h] = 0) =>
      \A s \in {handleRoomLeave(State, h), handleDisconnect(State, h)} :
        /\ \A g \in Guests(room[h]) :
             s.connectionId[g] = -1 /\ EmptyStatus \in Range(s.sent[g])
        /\ s.rooms[heap[room[h]].name] = NoRoom

\* C2: the ids a room's join hands out are strictly increasing, start at 1,
\* and none is handed out twice, whatever joins, leaves and disconnects
\* happened in between (issued is the sequence of ids join returned).
C2_IdsStrictlyIncreasing ==
  \A r \in RoomRefs :
    LET q == heap[r].issued
    IN /\ q # <<>> => q[1] = 1
       /\ \A i, j \in 1..Len(q) : i < j => q[i] < q[j]

\* C2 witness: a room handed out an id after an earlier member had left (the
\* leave grew the array, so the next id skips one)
C2_Witness ==
  \E r \in Registered :
    \E i \in 1..(Len(heap[r].issued) - 1) :
      /\ heap[r].issued[i + 1] > heap[r].issued[i] + 1
      /\ \A g \in Members(r) : connectionId[g] # heap[r].issued[i]

\* C3: a broadcast to everyone with exclusion X reaches every connection in
\* the room, host included, except exactly those whose id is in X, for X
\* empty, a single id, and a set of ids.
ExclusionShapes ==
  {JSNull} \cup {JSNum(k) : k \in 0..MaxClients}
           \cup {JSArr(<<k>>) : k \in 0..MaxClients} \cup {JSArr(<<0, 1>>)}
Excluded(x) ==
  IF x.t = "number" THEN {x.n}
  ELSE IF x.t = "array" THEN Range(x.ids) ELSE {}
C3_BroadcastExclusion ==
  ~fault =>
    \A r \in Registered, x \in ExclusionShapes :
      LET s == emit(State, r, "game:set", JSNum(-1), x, [game |-> "trivia"])
      IN \A g \in Conns :
           (s.sent[g] # <<>>) <=> (g \in Members(r) /\ connectionId[g] \notin Excluded(x))

\* C4: on a successful join every other connection in the room is sent one
\* member-joined notification with the new id and session, and the joiner is
\* sent none.
C4_JoinNotifiesOthers ==
  \A c \in Conns, roomName \in Codes, password \in Passwords :
    (Live(c) /\ ~isInRoom(State, c) /\ inRooms(State, roomName)) =>
      LET s == handleRoomJoin(State, c, roomName, password)
          joined == [event |-> "connections:join",
                     args |-> [connectionId |-> s.connectionId[c], session |-> session(c)]]
      IN s.connectionId[c] # -1 =>
           /\ \A g \in Members(rooms[roomName]) : Count(s.sent[g], joined) = 1
           /\ Count(s.sent[c], joined) = 0

\* C5: a join on a password-protected room with a non-matching password
\* changes no room, no membership and no connection, sends nothing to any
\* other connection, and answers the caller alone with the wrong-password
\* error, the caller staying UNJOINED.
C5_WrongPasswordRejected ==
  \A c \in Conns, roomName \in Codes, password \in Passwords :
    (/\ Live(c) /\ ~isInRoom(State, c) /\ inRooms(State, roomName)
     /\ heap[rooms[roomName]].password # null
     /\ heap[rooms[roomName]].password # password) =>
      LET s == handleRoomJoin(State, c, roomName, password)
      IN /\ ~s.fault
         /\ s.rooms = rooms /\ s.heap = heap
         /\ s.connectionId = connectionId /\ s.room = room /\ s.socket = socket
         /\ s.sent = [NoSent EXCEPT ![c] =
                        <<[event |-> "room:status",
                           args |-> [error |-> "error_room_wrong_password"]]>>]

\* C5 witness: an unjoined connection can send a wrong password to a
\* protected room whose host is connected, and is answered with the error
C5_Witness ==
  \E c \in Conns, roomName \in Codes :
    /\ Live(c) /\ ~isInRoom(State, c) /\ inRooms(State, roomName)
    /\ heap[rooms[roomName]].password = "x"
    /\ Live(heap[rooms[roomName]].hostConnection)
    /\ handleRoomJoin(State, c, roomName, "y").sent[c] # <<>>

\* C6: a connection that sends a gameEvent with no target (or -1) is never
\* itself sent the relayed event.
C6_SenderExcluded ==
  \A c \in Conns, m \in Broadcasts :
    (Live(c) /\ isInRoom(State, c)) => handleGameEvent(State, c, m).sent[c] = <<>>

\* C6 witness: a guest of a room in which an earlier guest left broadcasts,
\* and the event goes out to somebody else
C6_Witness ==
  \E c \in Conns, m \in Broadcasts :
    /\ Live(c) /\ connectionId[c] > 1
    /\ Recipients(handleGameEvent(State, c, m)) # {}
    /\ c \notin Recipients(handleGameEvent(State, c, m))

\* C7: a gameEvent with no target sent by the connection with id s is sent,
\* with senderId s and the sender's event name and args, to every other
\* connection in the same room.
C7_BroadcastReachesRoom ==
  \A c \in Conns, m \in Broadcasts :
    (Live(c) /\ isInRoom(State, c)) =>
      \A g \in Members(room[c]) \ {c} :
        Relayed(connectionId[c], m) \in Range(handleGameEvent(State, c, m).sent[g])

\* C8: resolving id 0 gives the host, and resolving k >= 1 gives exactly the
\* connection join assigned k to if it is still in the room, else nothing.
C8_ResolveById ==
  ~fault =>
    \A r \in Registered :
      /\ getClientById(heap[r], 0) = heap[r].hostConnection
      /\ \A k \in 1..(MaxClients + 1) :
           IF \E g \in Members(r) : connectionId[g] = k
             THEN getClientById(heap[r], k) \in {g \in Members(r) : connectionId[g] = k}
             ELSE getClientById(heap[r], k) = undefined

\* C9: a gameEvent with target id t goes to at most one connection, the
\* member whose id is t, carrying the sender's id, event name and args, and
\* is dropped when no member has id t.
C9_TargetedDelivery ==
  \A c \in Conns, m \in Targeted :
    (Live(c) /\ isInRoom(State, c)) =>
      LET s == handleGameEvent(State, c, m)
      IN /\ Cardinality(Recipients(s)) <= 1
         /\ \A g \in Conns :
              IF g \in Members(room[c]) /\ connectionId[g] = m.connectionId.n
                THEN s.sent[g] = <<Relayed(connectionId[c], m)>>
                ELSE s.sent[g] = <<>>

\* C10: when the host sets the game to g the room's game becomes g and every
\* connection in the room, the host included, is sent gameSet(g).
C10_SetGameReachesRoom ==
  \A h \in Conns, game \in Games :
    (Live(h) /\ connectionId[h] = 0) =>
      LET s == handleGameSet(State, h, game)
      IN /\ s.heap[room[h]].game = game
         /\ \A g \in Members(room[h]) :
              [event |-> "game:set", args |-> [game |-> game]] \in Range(s.sent[g])

\* C11: a setGame request from a connection that is UNJOINED or whose id is
\* not 0 changes no room (so no room's game) and sends no gameSet, nor
\* anything else, to anybody.
C11_OnlyHostSetsGame ==
  \A c \in Conns, game \in Games :
    (Live(c) /\ connectionId[c] # 0) =>
      LET s == handleGameSet(State, c, game)
      IN /\ ~s.fault
         /\ s.rooms = rooms /\ s.heap = heap
         /\ s.sent = NoSent

\* C11 witness: a guest of a registered room whose host is connected and
\* whose game is not yet the requested one sends setGame
C11_Witness ==
  \E c \in Conns, game \in Games :
    /\ Live(c) /\ connectionId[c] >= 1
    /\ room[c] \in Registered
    /\ Live(heap[room[c]].hostConnection)
    /\ heap[room[c]].game # game
    /\ handleGameSet(State, c, game).heap = heap

\* The replies of joinRoom and openRoom
NotExists == [event |-> "room:status", args |-> [error |-> "error_room_not_exists"]]
Opened(roomName) ==
  [event |-> "room:status", args |-> [connectionId |-> 0, roomName |-> roomName]]

\* C12: once a host's leave or disconnect has disposed its room, the room's
\* code is not registered, a join naming it is answered with room-not-found
\* and leaves the caller UNJOINED, and opening a room under that same code
\* succeeds: the code is registered again with the opener as host (id 0).
C12_DisposedCodeReusable ==
  \A h \in Conns :
    (Live(h) /\ connectionId[h] = 0) =>
      \A d \in {handleRoomLeave(State, h), handleDisconnect(State, h)} :
        ~d.fault =>
          LET code == heap[room[h]].name
              s == [d EXCEPT !.sent = NoSent]
          IN /\ ~inRooms(s, code)
             /\ \A c \in Conns :
                  (s.socket[c] = "open" /\ ~isInRoom(s, c)) =>
                    /\ \A password \in Passwords :
                         LET j == handleRoomJoin(s, c, code, password)
                         IN j.sent[c] = <<NotExists>> /\ ~isInRoom(j, c)
                    /\ \A password \in OpenPasswords :
                         LET o == handleRoomOpen(s, c, code, password)
                         IN /\ ~o.fault
                            /\ inRooms(o, code)
                            /\ o.room[c] = o.rooms[code]
                            /\ o.heap[o.rooms[code]].hostConnection = c
                            /\ o.connectionId[c] = 0
                            /\ o.sent[c] = <<Opened(code)>>

\* C12 witness: the host of a room that a guest had joined leaves, the room is
\* disposed, and a connection is there to join or open under the old code
C12_Witness ==
  \E h \in Conns :
    /\ Live(h) /\ connectionId[h] = 0
    /\ heap[room[h]].issued # <<>>
    /\ LET d == handleRoomLeave(State, h)
       IN /\ ~d.fault
          /\ d.rooms[heap[room[h]].name] = NoRoom
          /\ \E c \in Conns : d.socket[c] = "open" /\ ~isInRoom(d, c)

\* C13: the name generateEmptyRoomName returns is not a key of the registry
\* at the moment it is returned, whichever codes are registered.
C13_GeneratedCodeFree ==
  gen.pc = "return" => ~(gen.name \in DOMAIN rooms /\ rooms[gen.name] # NoRoom)

\* C13 witness: the generator returns after draws that hit registered codes
C13_Witness ==
  /\ gen.pc = "return" /\ gen.i > 0
  /\ \E code \in DOMAIN rooms : rooms[code] # NoRoom

\* C14: the generator terminates, also when every code of the first length
\* is registered: the failure counter stays below the number of tries, the
\* length changes only after that many colliding draws, by one and with the
\* counter back at 0, and the call returns.
C14_GeneratorTerminates ==
  /\ [](gen.i < Tries)
  /\ [][gen'.num # gen.num =>
         gen.i = Tries - 1 /\ gen'.num = gen.num + 1 /\ gen'.i = 0]_vars
  /\ <>(gen.pc = "return")

\* C14 witness: with every code of the first length registered the generator
\* returns a name one digit longer
C14_Witness ==
  /\ \A code \in FirstCodes : rooms[code] # NoRoom
  /\ gen.pc = "return" /\ gen.num = StartLength + 1

\* C15: the room-status reply to a successful join carries the room's code,
\* the id assigned to the joiner, and a snapshot that maps the id of every
\* member already present to its session, 0 -> the host's session included.
C15_JoinReplySnapshot ==
  \A c \in Conns, roomName \in Codes, password \in Passwords :
    (Live(c) /\ ~isInRoom(State, c) /\ inRooms(State, roomName)) =>
      LET s == handleRoomJoin(State, c, roomName, password)
          present == {<<connectionId[g], session(g)>> : g \in Members(rooms[roomName])}
      IN s.connectionId[c] # -1 =>
           s.sent[c] = <<[event |-> "room:status",
                          args |-> [connections |-> present,
                                    connectionId |-> s.connectionId[c],
                                    roomName |-> roomName]]>>

\* C16: a join from an UNJOINED connection that names a code not in the
\* registry is answered, to the caller alone, with the room-not-found error;
\* the caller stays UNJOINED and the registry and every room are unchanged.
C16_UnknownCodeRejected ==
  \A c \in Conns, roomName \in Codes \cup {UnknownCode}, password \in Passwords :
    (Live(c) /\ ~isInRoom(State, c) /\ ~inRooms(State, roomName)) =>
      LET s == handleRoomJoin(State, c, roomName, password)
      IN /\ ~s.fault
         /\ s.sent = [NoSent EXCEPT ![c] = <<NotExists>>]
         /\ s.rooms = rooms /\ s.heap = heap
         /\ s.connectionId = connectionId /\ s.room = room /\ s.socket = socket

\* C16 witness: while a room with a connected host is registered, an unjoined
\* connection names another code and is answered with room-not-found
C16_Witness ==
  \E c \in Conns, code \in Codes :
    /\ Live(c) /\ ~isInRoom(State, c)
    /\ inRooms(State, code) /\ Live(heap[rooms[code]].hostConnection)
    /\ handleRoomJoin(State, c, UnknownCode, null).sent[c] = <<NotExists>>

\* C17: an open request from an UNJOINED connection always succeeds: with
\* the name the generator hands back (one that is not registered) a room is
\* registered under that name with the caller as host, the caller is in it
\* with id 0 and is sent a room-status carrying the name and id 0; nothing
\* else is sent, in particular no room-already-exists error.
C17_OpenSucceeds ==
  \A c \in Conns, roomName \in Codes, password \in OpenPasswords :
    (Live(c) /\ ~isInRoom(State, c) /\ ~inRooms(State, roomName)) =>
      LET o == handleRoomOpen(State, c, roomName, password)
      IN /\ ~o.fault
         /\ inRooms(o, roomName)
         /\ o.heap[o.rooms[roomName]] =
              [name |-> roomName, password |-> password, hostConnection |-> c,
               clientConnections |-> <<>>, game |-> "", issued |-> <<>>]
         /\ o.room[c] = o.rooms[roomName] /\ o.connectionId[c] = 0
         /\ o.sent = [NoSent EXCEPT ![c] = <<Opened(roomName)>>]

\* C17 witness: a connection opens a room under a code whose earlier room was
\* disposed while a guest of that earlier room is still connected
C17_Witness ==
  \E c, g \in Conns, roomName \in Codes :
    /\ Live(c) /\ ~isInRoom(State, c) /\ ~inRooms(State, roomName)
    /\ g # c /\ Live(g) /\ isInRoom(State, g) /\ heap[room[g]].name = roomName
    /\ handleRoomOpen(State, c, roomName, null).connectionId[c] = 0

\* C18: when the guest with id k leaves voluntarily it becomes UNJOINED and
\* is sent an empty room-status, and member-left(k) is sent to every member
\* that remains in the room (the host and every other guest) and to nobody
\* else.
C18_LeaveNotifiesRemaining ==
  \A c \in Conns :
    (Live(c) /\ connectionId[c] >= 1) =>
      LET s == handleRoomLeave(State, c)
          left == [event |-> "connections:disconnect",
                   args |-> [connectionId |-> connectionId[c]]]
      IN /\ s.connectionId[c] = -1
         /\ EmptyStatus \in Range(s.sent[c])
         /\ \A g \in Conns :
              left \in Range(s.sent[g]) <=> g \in Members(room[c]) \ {c}

\* C19: a single broadcast (member-joined, member-left, gameSet, gameEvent to
\* everyone) sends the event at most once to any connection, also after a
\* connection left the room and joined it again.
C19_BroadcastOncePerRecipient ==
  \A c \in Conns :
    /\ (Live(c) /\ ~isInRoom(State, c)) =>
         \A roomName \in Codes, password \in Passwords, g \in Conns \ {c} :
           Len(handleRoomJoin(State, c, roomName, password).sent[g]) <= 1
    /\ (Live(c) /\ isInRoom(State, c)) =>
         /\ \A game \in Games, g \in Conns :
              Len(handleGameSet(State, c, game).sent[g]) <= 1
         /\ \A m \in Broadcasts, g \in Conns :
              Len(handleGameEvent(State, c, m).sent[g]) <= 1
         /\ \A g \in Conns \ {c} :
              Len(handleRoomLeave(State, c).sent[g]) <= 1

\* C20: the k-th connection to join a room successfully is assigned id k: the
\* ids a room hands out are 1, 2, 3, ... without a gap, whatever leaves and
\* disconnects happened in between.
C20_IdsWithoutGaps ==
  \A r \in RoomRefs :
    \A k \in 1..Len(heap[r].issued) : heap[r].issued[k] = k

\* C21: a join request from an UNJOINED connection whose room name is empty
\* or not a string is answered to that caller with a room-status carrying an
\* error; the handler raises no fault, and the connection stays UNJOINED with
\* the registry and every room unchanged.
C21_InvalidNameAnswered ==
  \A c \in Conns, roomName \in {"", NotAString}, password \in Passwords :
    (Live(c) /\ ~isInRoom(State, c)) =>
      LET s == handleRoomJoin(State, c, roomName, password)
      IN /\ ~s.fault
         /\ Len(s.sent[c]) = 1
         /\ s.sent[c][1].event = "room:status"
         /\ "error" \in DOMAIN s.sent[c][1].args
         /\ ~isInRoom(s, c)
         /\ s.rooms = rooms /\ s.heap = heap

\* a socket of the instance can deliver a message
Receiving == api.socket = "open" \/ api.leaked
\* how often the dispatch called application callback n
Invocations(a, n) == Cardinality({i \in 1..Len(a.invoked) : a.invoked[i].cb = n})

\* C22: a callback registered with once or gameOnce is called on the first
\* occurrence of its event after the registration and on no later one, while
\* a callback registered with on or gameOn for the same event is called on
\* every occurrence, those after the once callback was called included.
C22_OnceInvokedOnce ==
  /\ \A n \in Callbacks :
       LET h == api.hist[n]
       IN /\ h.reg \in {"once", "gameOnce"} => h.calls = (IF h.seen >= 1 THEN 1 ELSE 0)
          /\ h.reg \in {"on", "gameOn"} => h.calls = h.seen
  /\ Receiving =>
       /\ \A status \in Statuses, n \in Callbacks :
            (api.hist[n].reg \in {"on", "once"} /\ api.hist[n].event = "room:status") =>
              Invocations(recvRoomStatus(api, status), n)
                = (IF api.hist[n].reg = "once" /\ api.hist[n].seen >= 1 THEN 0 ELSE 1)
       /\ \A message \in GameMessages, n \in Callbacks :
            (/\ api.hist[n].reg \in {"gameOn", "gameOnce"}
             /\ api.hist[n].event = message.event
             /\ ~api.hist[n].cleared) =>
              Invocations(recvGameEvent(api, message), n)
                = (IF api.hist[n].reg = "gameOnce" /\ api.hist[n].seen >= 1 THEN 0 ELSE 1)

\* a once callback has seen its event twice and was called once, while an on
\* callback for the same event was called twice
C22_Witness ==
  \E n, m \in Callbacks :
    /\ api.hist[n].reg = "once" /\ api.hist[n].seen = 2 /\ api.hist[n].calls = 1
    /\ api.hist[m].reg = "on" /\ api.hist[m].event = api.hist[n].event
    /\ api.hist[m].calls = 2

\* C23: the instance's connectionId is -1 after construction; a room:status
\* that carries a room name and an id sets it to that id (and roomName to that
\* name), a room:status that carries neither sets it back to -1 and empties
\* clientConnections, and no other call or message changes it.
C23_MirrorConnectionId ==
  /\ api.connectionId # -1 => (api.connectionId \in {0, 1} /\ api.roomName \in Codes)
  /\ Receiving =>
       \A status \in Statuses :
         LET a == recvRoomStatus(api, status)
         IN IF carriesRoom(status)
              THEN a.connectionId = status.connectionId /\ a.roomName = status.roomName
              ELSE a.connectionId = -1 /\ a.clientConnections = {}
  /\ \A password \in OpenPasswords :
       clientOpenRoom(api, password).connectionId = api.connectionId
  /\ \A roomName \in ClientRoomNames, password \in OpenPasswords :
       clientJoinRoom(api, roomName, password).connectionId = api.connectionId
  /\ clientLeaveRoom(api).connectionId = api.connectionId
  /\ \A game \in Games :
       /\ clientSetGame(api, game).connectionId = api.connectionId
       /\ recvGameSet(api, game).connectionId = api.connectionId
  /\ \A event \in EventNames, args \in EventArgs :
       gameSend(api, event, -1, args).connectionId = api.connectionId
  /\ \A message \in GameMessages :
       recvGameEvent(api, message).connectionId = api.connectionId
  /\ recvConnectionsJoin(api, 2, session(3)).connectionId = api.connectionId
  /\ recvConnectionsDisconnect(api, 2).connectionId = api.connectionId

\* the instance is guest 1 of a room and knows of other members
C23_Witness ==
  /\ Receiving
  /\ api.connectionId = 1
  /\ api.clientConnections # {}

\* the promise of a request (of = "openRoom", "joinRoom") once status answered it
Settled(of, status) ==
  IF "connectionId" \in DOMAIN status /\ "roomName" \in DOMAIN status
    THEN [of |-> of, state |-> "resolved", answered |-> TRUE,
          value |-> IF of = "openRoom"
                      THEN [connectionId |-> status.connectionId,
                            roomName |-> status.roomName]
                      ELSE status]
    ELSE [of |-> of, state |-> "rejected", answered |-> TRUE,
          value |-> [error |-> IF "error" \in DOMAIN status THEN status.error ELSE ""]]

\* C24: the promise of openRoom or joinRoom is pending until the first
\* room:status received after the request and settles on it: resolved with the
\* room name and id the status carries (joinRoom: with the whole status, its
\* snapshot of members included), else rejected with the error it carries; a
\* settled promise is left as it is by every later room:status.  The same
\* holds when a second request is made while the first is pending.
C24_PromiseSettlesOnNextStatus ==
  /\ \A p \in 1..Len(api.promises) :
       (api.promises[p].state = "pending") <=> ~api.promises[p].answered
  /\ Receiving =>
       \A status \in Statuses, p \in 1..Len(api.promises) :
         recvRoomStatus(api, status).promises[p]
           = IF api.promises[p].state = "pending"
               THEN Settled(api.promises[p].of, status)
               ELSE api.promises[p]
  /\ \A password \in OpenPasswords, first, second \in Statuses :
       LET a1 == clientOpenRoom(api, password)
           q == Len(a1.promises)
           a2 == recvRoomStatus(a1, first)
           a3 == recvRoomStatus(a2, second)
       IN /\ a1.promises[q].state = "pending"
          /\ \A p \in 1..q :
               /\ a2.promises[p] = IF a1.promises[p].state = "pending"
                                     THEN Settled(a1.promises[p].of, first)
                                     ELSE a1.promises[p]
               /\ a3.promises[p] = a2.promises[p]

\* the promise of a joinRoom was resolved and a further room:status can arrive
C24_Witness ==
  /\ Receiving
  /\ \E p \in 1..Len(api.promises) :
       /\ api.promises[p].of = "joinRoom"
       /\ api.promises[p].state = "resolved"
       /\ "connections" \in DOMAIN api.promises[p].value

\* C25: a callback registered with gameOn or gameOnce before a game:set was
\* received is not called for any game:event received after it, and a gameOn
\* callback registered after the game:set is called for every game:event of
\* its name.
C25_GameSetDropsGameHandlers ==
  /\ \A n \in Callbacks : ~api.hist[n].late
  /\ Receiving =>
       \A message \in GameMessages, n \in Callbacks :
         /\ api.hist[n].cleared => Invocations(recvGameEvent(api, message), n) = 0
         /\ (/\ api.hist[n].reg = "gameOn"
             /\ ~api.hist[n].cleared
             /\ api.hist[n].event = message.event) =>
              /\ Invocations(recvGameEvent(api, message), n) = 1
              /\ \E i \in 1..Len(recvGameEvent(api, message).invoked) :
                   recvGameEvent(api, message).invoked[i]
                     = [cb |-> n, args |-> [sender |-> message.sender, args |-> message.args]]
         /\ \A game \in Games :
              api.hist[n].reg \in {"gameOn", "gameOnce"} =>
                Invocations(recvGameEvent(recvGameSet(api, game), message), n) = 0

\* a gameOn callback was called, then dropped by a game:set, and a gameOn
\* callback registered for the same event afterwards was called
C25_Witness ==
  \E n, m \in Callbacks :
    /\ api.hist[n].reg = "gameOn" /\ api.hist[n].cleared /\ api.hist[n].calls >= 1
    /\ api.hist[m].reg = "gameOn" /\ ~api.hist[m].cleared /\ api.hist[m].calls >= 1
    /\ api.hist[m].event = api.hist[n].event

\* C26: when an instance in a room calls gameSend with an event name and
\* arguments, the game:event message it emits carries that name and those
\* arguments, so that once the server has relayed it with the sender's id, a
\* gameOn callback for that name on the receiving instance is called with the
\* sender's id and the arguments.
C26_GameSendCarriesEvent ==
  \A event \in EventNames, args \in EventArgs :
    (api.connectionId # -1 /\ api.socket = "open") =>
      LET wire == gameSend(api, event, -1, args).wire
          relayed == [sender |-> api.connectionId,
                      event |-> wire[1].args.event,
                      args |-> wire[1].args.args]
          receiver == gameOn(newApi, event, [kind |-> "on", t |-> "app", n |-> 1])
          received == recvGameEvent(receiver, relayed)
      IN /\ Len(wire) = 1
         /\ wire[1].event = "game:event"
         /\ wire[1].args.event = event
         /\ wire[1].args.args = args
         /\ received.invoked
              = <<[cb |-> 1, args |-> [sender |-> api.connectionId, args |-> args]]>>

\* C27: every registered code maps to one room that carries that code and has
\* exactly one host, no two codes map to the same room, and opening a room
\* under a code that is registered is answered with room-already-exists and
\* leaves the registry, the rooms and every connection as they were, so no
\* second connection becomes host of a registered code.
C27_OneRoomOneHostPerCode ==
  /\ \A code \in Codes :
       inRooms(State, code) =>
         LET r == rooms[code]
         IN /\ heap[r].name = code
            /\ {h \in Conns : room[h] = r /\ connectionId[h] = 0} = {heap[r].hostConnection}
            /\ \A other \in Codes : rooms[other] = r => other = code
  /\ \A c \in Conns, code \in Codes, password \in OpenPasswords :
       (Live(c) /\ ~isInRoom(State, c) /\ inRooms(State, code)) =>
         LET o == openRoom(State, c, code, password)
         IN /\ ~o.fault
            /\ o.sent = [NoSent EXCEPT ![c] =
                           <<[event |-> "room:status",
                              args |-> [error |-> "error_room_exists"]]>>]
            /\ o.rooms = rooms /\ o.heap = heap
            /\ o.connectionId = connectionId /\ o.room = room

\* C27 witness: while a room with its host and a guest is registered, another
\* call of openRoom names its code and is refused
C27_Witness ==
  \E c \in Conns, code \in Codes :
    /\ Live(c) /\ ~isInRoom(State, c) /\ inRooms(State, code)
    /\ Live(heap[rooms[code]].hostConnection)
    /\ heap[rooms[code]].issued # <<>>
    /\ openRoom(State, c, code, null).sent[c] # <<>>
    /\ openRoom(State, c, code, null).rooms = rooms

\* C28: a room's host connection occupies none of that room's guest slots,
\* and the only connection of a room whose id is 0 is the room's host.
C28_HostNotAMember ==
  \A r \in RoomRefs :
    heap[r].name # "" =>
      /\ heap[r].hostConnection \notin Range(heap[r].clientConnections)
      /\ \A c \in Conns :
           (room[c] = r /\ connectionId[c] = 0) => c = heap[r].hostConnection

\* C28 witness: a registered room with its host connected and a guest in a slot
C28_Witness ==
  \E r \in Registered :
    /\ Live(heap[r].hostConnection)
    /\ connectionId[heap[r].hostConnection] = 0
    /\ \E g \in Guests(r) : g \in Range(heap[r].clientConnections)

\* C29: when a guest leaves or disconnects, only the slot that guest occupies
\* is cleared and only that connection becomes UNJOINED: every other slot of
\* the room, the id and room of every other connection, the room's host, game
\* and password, and the registry are unchanged.
C29_GuestDepartureFrame ==
  \A c \in Conns :
    (Live(c) /\ connectionId[c] >= 1) =>
      \A s \in {handleRoomLeave(State, c), handleDisconnect(State, c)} :
        LET r == room[c]
            old == heap[r].clientConnections
            new == s.heap[r].clientConnections
        IN /\ s.connectionId[c] = -1
           /\ \A g \in Conns \ {c} :
                s.connectionId[g] = connectionId[g] /\ s.room[g] = room[g]
           /\ Len(new) >= Len(old)
           /\ \A i \in 1..Len(old) : new[i] = IF old[i] = c THEN undefined ELSE old[i]
           /\ s.heap[r].hostConnection = heap[r].hostConnection
           /\ s.heap[r].game = heap[r].game
           /\ s.heap[r].password = heap[r].password
           /\ s.rooms = rooms

\* C30: a handler whose precondition is violated does nothing: open and join
\* from a connection that is IN_ROOM, and leave, setGame and gameEvent from a
\* connection that is UNJOINED, leave the registry, every room and every
\* connection as they were, send nothing and raise no fault.
C30_PreconditionNoOp ==
  \A c \in Conns :
    /\ (Live(c) /\ connectionId[c] # -1) =>
         /\ \A roomName \in Codes \cup {UnknownCode}, password \in OpenPasswords :
              handleRoomOpen(State, c, roomName, password) = State
         /\ \A roomName \in RoomNameInputs, password \in Passwords :
              handleRoomJoin(State, c, roomName, password) = State
    /\ (Live(c) /\ connectionId[c] = -1) =>
         /\ handleRoomLeave(State, c) = State
         /\ \A game \in Games : handleGameSet(State, c, game) = State
         /\ \A message \in Messages : handleGameEvent(State, c, message) = State

\* C30 witness: a connection in a registered room and an UNJOINED connection
\* are both connected, and their out-of-place requests change nothing
C30_Witness ==
  \E c, d \in Conns, code \in Codes :
    /\ Live(c) /\ connectionId[c] # -1 /\ rooms[code] = room[c]
    /\ Live(d) /\ connectionId[d] = -1
    /\ handleRoomJoin(State, c, code, null) = State
    /\ handleRoomLeave(State, d) = State

\* C31: for a connected connection c that is in a room, the disconnect
\* handler and the leave handler reach the same registry, rooms, identities
\* and fault, and send the same messages to every other connection; when
\* neither faults, they differ only in that the disconnect releases c's socket
\* and the leave sends c a final empty room-status.
C31_DisconnectIsLeave ==
  \A c \in Conns :
    (Live(c) /\ connectionId[c] # -1) =>
      LET left == handleRoomLeave(State, c)
          gone == handleDisconnect(State, c)
      IN /\ gone.rooms = left.rooms
         /\ gone.heap = left.heap
         /\ gone.connectionId = left.connectionId
         /\ gone.room = left.room
         /\ gone.fault = left.fault
         /\ \A g \in Conns \ {c} :
              gone.sent[g] = left.sent[g] /\ gone.socket[g] = left.socket[g]
         /\ ~left.fault =>
              /\ gone.socket[c] = "undefined" /\ left.socket[c] = "open"
              /\ left.sent[c] = Append(gone.sent[c], EmptyStatus)
              /\ \A i \in 1..Len(gone.sent[c]) : gone.sent[c][i].event # "room:status"

\* C31 witness: a connected host whose room has a guest can disconnect, the
\* room is disposed of and the guest is told so
C31_Witness ==
  \E c \in Conns :
    /\ Live(c) /\ connectionId[c] = 0
    /\ Guests(room[c]) # {}
    /\ ~handleDisconnect(State, c).fault
    /\ handleDisconnect(State, c).socket[c] = "undefined"
    /\ \E g \in Guests(room[c]) : handleDisconnect(State, c).sent[g] # <<>>

\* C32: a callback registered with once is called at most one time for an
\* occurrence of its event even when the callback itself, while it runs,
\* emits that event again; the dispatch does not throw and the listener is
\* detached afterwards.
C32_OnceUnderReentrantEmit ==
  \A status \in Statuses :
    (Receiving /\ \E n \in Callbacks : api.hist[n].reg = "none") =>
      LET n == nextCallback(api)
          a1 == once([api EXCEPT !.hist[n].reg = "once", !.hist[n].event = "room:status"],
                     "room:status", [kind |-> "on", t |-> "reemit", n |-> n])
          a2 == recvRoomStatus(a1, status)
      IN /\ Invocations(a2, n) <= 1
         /\ ~a2.threw
         /\ a2.events["room:status"][Len(a1.events["room:status"])] = NoSlot

\* What the handlers of a connected connection c can make of the state, for
\* every input its client can send
Outcomes(c) ==
  {handleDisconnect(State, c), handleRoomLeave(State, c)}
    \cup {handleRoomOpen(State, c, roomName, password) :
            roomName \in DOMAIN rooms, password \in OpenPasswords}
    \cup {handleRoomJoin(State, c, roomName, password) :
            roomName \in DOMAIN rooms \cup {UnknownCode}, password \in Passwords}
    \cup {handleGameSet(State, c, game) : game \in Games}
    \cup {handleGameEvent(State, c, message) : message \in Messages}

\* c was admitted to the room registered under code
Admitted(s, c, code) ==
  /\ s.connectionId[c] >= 1
  /\ s.room[c] = s.rooms[code]
  /\ c \in Range(s.heap[s.rooms[code]].clientConnections)

\* C33: a join from an UNJOINED connection to a registered room is admitted
\* exactly when the room was opened without a password or the joiner supplies
\* the room's password, and no handler changes the password of a room that
\* stays registered.
C33_AdmissionByPassword ==
  /\ \A c \in Conns, code \in Codes, password \in Passwords :
       (Live(c) /\ connectionId[c] = -1 /\ rooms[code] # NoRoom) =>
         LET s == handleRoomJoin(State, c, code, password)
         IN /\ ~s.fault
            /\ Admitted(s, c, code)
                 <=> (\/ heap[rooms[code]].password = null
                      \/ heap[rooms[code]].password = password)
  /\ \A c \in Conns, code \in Codes :
       (Live(c) /\ rooms[code] # NoRoom) =>
         \A s \in Outcomes(c) :
           s.rooms[code] # NoRoom =>
             /\ s.rooms[code] = rooms[code]
             /\ s.heap[s.rooms[code]].password = heap[rooms[code]].password

\* C33 witness: a room opened with password "x" is registered and a connected
\* UNJOINED connection is admitted with "x"
C33_Witness ==
  \E c \in Conns, code \in Codes :
    /\ Live(c) /\ connectionId[c] = -1 /\ rooms[code] # NoRoom
    /\ heap[rooms[code]].password = "x"
    /\ Admitted(handleRoomJoin(State, c, code, "x"), c, code)
    /\ ~Admitted(handleRoomJoin(State, c, code, "y"), c, code)

\* The member slots of room r that hold connection c (join stores the guest
\* with id k in the k-th slot)
Slots(r, c) ==
  {i \in 1..Len(heap[r].clientConnections) : heap[r].clientConnections[i] = c}

\* C34: as long as no handler has thrown, a connection c has identity (r, k)
\* with k >= 1 exactly when r is registered and c is in exactly one member slot
\* of r, the k-th, and c has identity (r, 0) exactly when r is registered and c
\* is r's host.
C34_MembershipAgreement ==
  ~fault =>
    \A c \in Conns, r \in RoomRefs :
      /\ (room[c] = r /\ connectionId[c] >= 1)
           <=> (r \in Registered /\ Cardinality(Slots(r, c)) = 1)
      /\ (room[c] = r /\ connectionId[c] >= 1) => Slots(r, c) = {connectionId[c]}
      /\ (room[c] = r /\ connectionId[c] = 0)
           <=> (r \in Registered /\ heap[r].hostConnection = c)

\* The events a room sends to its members
RoomEvents == {"connections:join", "connections:disconnect", "game:set", "game:event"}

\* The room a handler of c acts on: the room c is in, or the room c joins
OriginRoom(s, c) == IF connectionId[c] # -1 THEN room[c] ELSE s.room[c]

\* C35: whatever a connected connection c sends, every connection that the
\* handler sends a member-joined, member-left, game:set or game:event message
\* to is, when the handler starts, IN_ROOM in the room the message comes from
\* (or is c itself, joining it).
C35_RoomScopedMessages ==
  \A c \in Conns :
    Live(c) =>
      \A s \in Outcomes(c), g \in Conns :
        (\E i \in 1..Len(s.sent[g]) : s.sent[g][i].event \in RoomEvents) =>
          \/ g = c
          \/ (connectionId[g] # -1 /\ room[g] = OriginRoom(s, c))

\* C36: when the connected host h of a registered room leaves or disconnects,
\* every other registered room stays registered with its host, members,
\* password and game as they were and every connection that is in it keeps
\* its identity; and whatever a connection sends, a room that stops being
\* registered is the room of which that connection was the host.
C36_DisposalLeavesOtherRooms ==
  /\ \A h \in Conns :
       (Live(h) /\ connectionId[h] = 0 /\ room[h] \in Registered) =>
         \A s \in {handleRoomLeave(State, h), handleDisconnect(State, h)} :
           \A code \in DOMAIN rooms :
             (rooms[code] # NoRoom /\ rooms[code] # room[h]) =>
               /\ s.rooms[code] = rooms[code]
               /\ s.heap[rooms[code]] = heap[rooms[code]]
               /\ \A g \in Members(rooms[code]) :
                    /\ s.room[g] = room[g]
                    /\ s.connectionId[g] = connectionId[g]
  /\ \A c \in Conns :
       Live(c) =>
         \A s \in Outcomes(c), code \in DOMAIN rooms :
           (rooms[code] # NoRoom /\ s.rooms[code] = NoRoom) =>
             (connectionId[c] = 0 /\ room[c] = rooms[code])

\* C37: as long as no handler has thrown, the host and every occupied member
\* slot of every registered room is a connection whose socket is open, and no
\* handler throws on a request with a room name that is a string, a game or a
\* game event, whichever connected connection sends it.
C37_NoClosedRecipient ==
  ~fault =>
    /\ \A r \in Registered :
         /\ socket[heap[r].hostConnection] = "open"
         /\ \A i \in 1..Len(heap[r].clientConnections) :
              heap[r].clientConnections[i] # undefined =>
                socket[heap[r].clientConnections[i]] = "open"
    /\ \A c \in Conns : Live(c) => \A s \in Outcomes(c) : ~s.fault

\* C38: when the server opens a room for an instance and the instance's
\* openRoom promise resolves with a room name, then joinRoom called on a
\* second instance with that same name and the room's password emits a
\* room:join that names the room, and the server admits the second
\* instance's connection to it as a guest.
C38_RoomCodeRoundTrip ==
  \A h, c \in Conns, code \in Codes, password \in OpenPasswords :
    (/\ Live(h) /\ Live(c) /\ h # c
     /\ connectionId[h] = -1 /\ connectionId[c] = -1
     /\ ~inRooms(State, code)) =>
      LET opened == handleRoomOpen(State, h, code, password)
          first == recvRoomStatus(clientOpenRoom(newApi, password), opened.sent[h][1].args)
          resolved == first.promises[1].value.roomName
      IN /\ first.promises[1].state = "resolved"
         /\ \E name \in ClientRoomNames : Concat(name) = resolved
         /\ \A name \in ClientRoomNames :
              Concat(name) = resolved =>
                LET second == clientJoinRoom(newApi, name, password)
                    request == second.wire[1].args
                    s == handleRoomJoin([opened EXCEPT !.sent = NoSent], c,
                                        request.roomName, request.password)
                IN /\ ~second.threw
                   /\ request.roomName = code
                   /\ Admitted(s, c, code)

\* C39: when a connection h has opened a room and a connection c has joined
\* it, and the instances behind h and c have received every message the
\* server sent them, the host's clientConnections is {1 -> session of c} and
\* the guest's is {0 -> session of h}; and after c has left and the host's
\* instance has received what the server sent, it has no session under c's id.
C39_MirrorRefinesMembership ==
  \A h, c \in Conns, code \in Codes, password \in OpenPasswords :
    (/\ Live(h) /\ Live(c) /\ h # c
     /\ connectionId[h] = -1 /\ connectionId[c] = -1
     /\ ~inRooms(State, code)) =>
      LET opened == handleRoomOpen(State, h, code, password)
          host1 == deliverAll(clientOpenRoom(newApi, password), opened.sent[h])
          joined2 == handleRoomJoin([opened EXCEPT !.sent = NoSent], c, code, password)
          host2 == deliverAll(host1, joined2.sent[h])
          guest2 == deliverAll(openSocket(newApi), joined2.sent[c])
          left3 == handleRoomLeave([joined2 EXCEPT !.sent = NoSent], c)
          host3 == deliverAll(host2, left3.sent[h])
      IN /\ host2.connectionId = 0 /\ guest2.connectionId = 1
         /\ host2.clientConnections = {<<1, session(c)>>}
         /\ guest2.clientConnections = {<<0, session(h)>>}
         /\ \A q \in host3.clientConnections : q[1] = 1 => q[2] = undefined

====
